---- MODULE Spec2Model ----
(***************************************************************************)
(* TokenMan: the Hangman rules engine (src/core/engine.py) over the frozen *)
(* GameState value (src/core/state.py).                                    *)
(*                                                                         *)
(* A Python str is modelled as a sequence of code points; a code point is  *)
(* a token such as "a", "A", "1", " ", "-".  The token "U+0130" is LATIN   *)
(* CAPITAL LETTER I WITH DOT ABOVE, whose str.lower() is the two code      *)
(* points "i" "U+0307" (COMBINING DOT ABOVE).                              *)
(* A Python value handed to the engine is a record [type, str, int].       *)
(***************************************************************************)
EXTENDS Integers, Sequences, FiniteSets, TLC

\* ------------------------------------------------------------------ bounds
\* largest mistake budget a driver passes to new_game
MaxWrongBound == 2
\* largest wrong_count handed directly to the GameState constructor
MaxRawWrong == 2
\* most rounds a session adds to its statistics before it resets them
MaxGames == 2

\* ------------------------------------------------------- Python str model
LowerAlpha == {"a", "b", "e", "h", "i", "k", "l", "m", "n", "o", "p", "t", "y", "z"}
UpperAlpha == {"A", "B", "P", "Y", "T", "H", "O", "N", "U+0130"}
Whitespace == {" "}

\* str.lower() of one code point (may expand to two code points)
LowerChar(c) ==
    CASE c = "A" -> <<"a">>
      [] c = "B" -> <<"b">>
      [] c = "P" -> <<"p">>
      [] c = "Y" -> <<"y">>
      [] c = "T" -> <<"t">>
      [] c = "H" -> <<"h">>
      [] c = "O" -> <<"o">>
      [] c = "N" -> <<"n">>
      [] c = "U+0130" -> <<"i", "U+0307">>
      [] OTHER -> <<c>>

RECURSIVE lower(_)
lower(s) == IF s = <<>> THEN <<>> ELSE LowerChar(Head(s)) \o lower(Tail(s))

RECURSIVE lstrip(_)
lstrip(s) == IF s # <<>> /\ Head(s) \in Whitespace THEN lstrip(Tail(s)) ELSE s

RECURSIVE rstrip(_)
rstrip(s) ==
    IF s # <<>> /\ s[Len(s)] \in Whitespace THEN rstrip(SubSeq(s, 1, Len(s) - 1)) ELSE s

strip(s) == rstrip(lstrip(s))

\* str.isalpha(): non-empty and every code point is a letter
isalpha(s) == Len(s) > 0 /\ \A i \in 1..Len(s) : s[i] \in LowerAlpha \cup UpperAlpha

\* `sub in s` for two str values
IsSubstring(sub, s) ==
    \E i \in 0..(Len(s) - Len(sub)) : SubSeq(s, i + 1, i + Len(sub)) = sub

\* set(s): the distinct characters of s, each a str of length 1
CharSet(s) == {<<s[i]>> : i \in 1..Len(s)}

\* ---------------------------------------------------------- Python values
PyStr(s) == [type |-> "str", str |-> s, int |-> 0]
PyInt(n) == [type |-> "int", str |-> <<>>, int |-> n]
PyNone == [type |-> "NoneType", str |-> <<>>, int |-> 0]
\* the picker call does not return: it raises
PyRaise == [type |-> "raise", str |-> <<>>, int |-> 0]

Truthy(v) ==
    CASE v.type = "str" -> v.str # <<>>
      [] v.type = "int" -> v.int # 0
      [] OTHER -> FALSE

\* an exception leaving a function, as a value of its own shape
Raised(name) == [error |-> name]
IsError(r) == DOMAIN r = {"error"}

\* ---------------------------------------------------------------- state.py
StatusValues == {"playing", "won", "lost"}

\* GameState(...) followed by __post_init__
GameState(secret_word, guessed, wrong_count, max_wrong, status) ==
    LET sw == lower(strip(secret_word))
        normalized_guessed == {lower(c) : c \in {g \in guessed : isalpha(g) /\ Len(g) = 1}}
    IN  IF ~isalpha(sw) THEN Raised("ValueError")
        ELSE IF max_wrong < 1 THEN Raised("ValueError")
        ELSE IF wrong_count < 0 THEN Raised("ValueError")
        ELSE IF status \notin StatusValues THEN Raised("ValueError")
        ELSE [secret_word |-> sw, guessed |-> normalized_guessed,
              wrong_count |-> wrong_count, max_wrong |-> max_wrong, status |-> status]

\* ---------------------------------------------------------------- engine.py
FallbackWord == <<"p", "y", "t", "h", "o", "n">>

\* new_game that forgets to trim the picked word
new_game_untrimmed(picked, max_wrong) ==
    IF picked.type = "raise" THEN Raised("PickerError")
    ELSE IF Truthy(picked) /\ picked.type # "str" THEN Raised("AttributeError")
    ELSE LET word == lower(IF Truthy(picked) THEN picked.str ELSE <<>>)
         IN  GameState(IF ~isalpha(word) THEN FallbackWord ELSE word,
                       {}, 0, max_wrong, "playing")

new_game(picked, max_wrong) ==
    IF picked.type = "raise" THEN Raised("PickerError")
    ELSE IF Truthy(picked) /\ picked.type # "str" THEN Raised("AttributeError")
    ELSE LET word == lower(strip(IF Truthy(picked) THEN picked.str ELSE <<>>))
         IN  GameState(IF ~isalpha(word) THEN FallbackWord ELSE word,
                       {}, 0, max_wrong, "playing")

RECURSIVE Join(_)
Join(cells) ==
    IF Len(cells) = 0 THEN <<>>
    ELSE IF Len(cells) = 1 THEN <<cells[1]>>
    ELSE <<cells[1], " ">> \o Join(Tail(cells))

\* mask_word that tests the wrong collection for membership
mask_word_inverted(secret, guessed) ==
    Join([i \in 1..Len(secret) |-> IF <<secret[i]>> \in guessed THEN "_" ELSE secret[i]])

mask_word(secret, guessed) ==
    Join([i \in 1..Len(secret) |-> IF <<secret[i]>> \in guessed THEN secret[i] ELSE "_"])

AllGuessed(s) == \A c \in CharSet(s.secret_word) : c \in s.guessed

\* _check_outcome whose win branch fires on any revealed letter
_check_outcome_any(s) ==
    IF \E c \in CharSet(s.secret_word) : c \in s.guessed
    THEN GameState(s.secret_word, s.guessed, s.wrong_count, s.max_wrong, "won")
    ELSE IF s.wrong_count >= s.max_wrong
    THEN GameState(s.secret_word, s.guessed, s.wrong_count, s.max_wrong, "lost")
    ELSE s

\* _check_outcome with an off-by-one loss test
_check_outcome_strict(s) ==
    IF AllGuessed(s)
    THEN GameState(s.secret_word, s.guessed, s.wrong_count, s.max_wrong, "won")
    ELSE IF s.wrong_count > s.max_wrong
    THEN GameState(s.secret_word, s.guessed, s.wrong_count, s.max_wrong, "lost")
    ELSE s

_check_outcome(s) ==
    IF AllGuessed(s)
    THEN GameState(s.secret_word, s.guessed, s.wrong_count, s.max_wrong, "won")
    ELSE IF s.wrong_count >= s.max_wrong
    THEN GameState(s.secret_word, s.guessed, s.wrong_count, s.max_wrong, "lost")
    ELSE s

\* guess_letter without the terminal-status early return
guess_letter_unguarded(s, ch) ==
    IF ch.type # "str" \/ Len(ch.str) # 1 \/ ~isalpha(ch.str) THEN s
    ELSE LET c == lower(ch.str)
         IN  IF c \in s.guessed THEN s
             ELSE LET wrong == s.wrong_count + (IF IsSubstring(c, s.secret_word) THEN 0 ELSE 1)
                      new_state == GameState(s.secret_word, s.guessed \cup {c}, wrong,
                                             s.max_wrong, s.status)
                  IN  _check_outcome(new_state)

\* guess_letter that validates only the type and length of its input
guess_letter_unvalidated(s, ch) ==
    IF s.status # "playing" THEN s
    ELSE IF ch.type # "str" \/ Len(ch.str) # 1 THEN s
    ELSE LET c == lower(ch.str)
         IN  IF c \in s.guessed THEN s
             ELSE LET wrong == s.wrong_count + (IF IsSubstring(c, s.secret_word) THEN 0 ELSE 1)
                      new_state == GameState(s.secret_word, s.guessed \cup {c}, wrong,
                                             s.max_wrong, s.status)
                  IN  _check_outcome(new_state)

guess_letter(s, ch) ==
    IF s.status # "playing" THEN s
    ELSE IF ch.type # "str" \/ Len(ch.str) # 1 \/ ~isalpha(ch.str) THEN s
    ELSE LET c == lower(ch.str)
         IN  IF c \in s.guessed THEN s
             ELSE LET wrong == s.wrong_count + (IF IsSubstring(c, s.secret_word) THEN 0 ELSE 1)
                      new_state == GameState(s.secret_word, s.guessed \cup {c}, wrong,
                                             s.max_wrong, s.status)
                  IN  _check_outcome(new_state)

\* guess_word whose winning branch keeps the earlier guesses
guess_word_keeping(s, word) ==
    IF s.status # "playing" THEN s
    ELSE IF Truthy(word) /\ word.type # "str" THEN Raised("AttributeError")
    ELSE LET attempt == lower(strip(IF Truthy(word) THEN word.str ELSE <<>>))
         IN  IF ~isalpha(attempt) THEN s
             ELSE IF attempt = s.secret_word
             THEN GameState(s.secret_word, s.guessed \cup CharSet(s.secret_word),
                            s.wrong_count, s.max_wrong, "won")
             ELSE _check_outcome(GameState(s.secret_word, s.guessed, s.wrong_count + 1,
                                           s.max_wrong, s.status))

\* guess_word that charges one strike per letter of a wrong attempt
guess_word_per_letter(s, word) ==
    IF s.status # "playing" THEN s
    ELSE IF Truthy(word) /\ word.type # "str" THEN Raised("AttributeError")
    ELSE LET attempt == lower(strip(IF Truthy(word) THEN word.str ELSE <<>>))
         IN  IF ~isalpha(attempt) THEN s
             ELSE IF attempt = s.secret_word
             THEN GameState(s.secret_word, CharSet(s.secret_word), s.wrong_count,
                            s.max_wrong, "won")
             ELSE _check_outcome(GameState(s.secret_word, s.guessed,
                                           s.wrong_count + Len(attempt),
                                           s.max_wrong, s.status))

guess_word(s, word) ==
    IF s.status # "playing" THEN s
    ELSE IF Truthy(word) /\ word.type # "str" THEN Raised("AttributeError")
    ELSE LET attempt == lower(strip(IF Truthy(word) THEN word.str ELSE <<>>))
         IN  IF ~isalpha(attempt) THEN s
             ELSE IF attempt = s.secret_word
             THEN GameState(s.secret_word, CharSet(s.secret_word), s.wrong_count,
                            s.max_wrong, "won")
             ELSE _check_outcome(GameState(s.secret_word, s.guessed, s.wrong_count + 1,
                                           s.max_wrong, s.status))

\* ---- engine.py and state.py once more, on objects: a GameState object
\* refers to its guessed set by object id, and a call returns the heap it
\* leaves behind together with the object it returns
Alloc(h, contents) == Append(h, contents)

Deref(h, obj) ==
    [secret_word |-> obj.secret_word, guessed |-> h[obj.guessed],
     wrong_count |-> obj.wrong_count, max_wrong |-> obj.max_wrong, status |-> obj.status]

\* GameState(..., guessed=<object gid>, ...): __post_init__ binds a new set
ObjGameState(h, secret_word, gid, wrong_count, max_wrong, status) ==
    LET value == GameState(secret_word, h[gid], wrong_count, max_wrong, status)
        h1 == Alloc(h, IF IsError(value) THEN {} ELSE value.guessed)
    IN  IF IsError(value) THEN [heap |-> h, obj |-> value]
        ELSE [heap |-> h1,
              obj |-> [secret_word |-> value.secret_word, guessed |-> Len(h1),
                       wrong_count |-> wrong_count, max_wrong |-> max_wrong,
                       status |-> status]]

Obj_check_outcome(h, s) ==
    IF \A c \in CharSet(s.secret_word) : c \in h[s.guessed]
    THEN LET h1 == Alloc(h, h[s.guessed])
         IN  ObjGameState(h1, s.secret_word, Len(h1), s.wrong_count, s.max_wrong, "won")
    ELSE IF s.wrong_count >= s.max_wrong
    THEN LET h1 == Alloc(h, h[s.guessed])
         IN  ObjGameState(h1, s.secret_word, Len(h1), s.wrong_count, s.max_wrong, "lost")
    ELSE [heap |-> h, obj |-> s]

\* guess_letter that adds the letter to the caller's set (new_guessed = state.guessed)
Obj_guess_letter_aliasing(h, s, ch) ==
    IF s.status # "playing" THEN [heap |-> h, obj |-> s]
    ELSE IF ch.type # "str" \/ Len(ch.str) # 1 \/ ~isalpha(ch.str) THEN [heap |-> h, obj |-> s]
    ELSE LET c == lower(ch.str)
         IN  IF c \in h[s.guessed] THEN [heap |-> h, obj |-> s]
             ELSE LET h2 == [h EXCEPT ![s.guessed] = @ \cup {c}]
                      wrong == s.wrong_count
                               + (IF IsSubstring(c, s.secret_word) THEN 0 ELSE 1)
                      made == ObjGameState(h2, s.secret_word, s.guessed, wrong, s.max_wrong,
                                           s.status)
                  IN  Obj_check_outcome(made.heap, made.obj)

Obj_guess_letter(h, s, ch) ==
    IF s.status # "playing" THEN [heap |-> h, obj |-> s]
    ELSE IF ch.type # "str" \/ Len(ch.str) # 1 \/ ~isalpha(ch.str) THEN [heap |-> h, obj |-> s]
    ELSE LET c == lower(ch.str)
         IN  IF c \in h[s.guessed] THEN [heap |-> h, obj |-> s]
             ELSE LET h1 == Alloc(h, h[s.guessed])
                      new_guessed == Len(h1)
                      h2 == [h1 EXCEPT ![new_guessed] = @ \cup {c}]
                      wrong == s.wrong_count
                               + (IF IsSubstring(c, s.secret_word) THEN 0 ELSE 1)
                      made == ObjGameState(h2, s.secret_word, new_guessed, wrong, s.max_wrong,
                                           s.status)
                  IN  Obj_check_outcome(made.heap, made.obj)

Obj_guess_word(h, s, word) ==
    IF s.status # "playing" THEN [heap |-> h, obj |-> s]
    ELSE IF Truthy(word) /\ word.type # "str" THEN [heap |-> h, obj |-> Raised("AttributeError")]
    ELSE LET attempt == lower(strip(IF Truthy(word) THEN word.str ELSE <<>>))
         IN  IF ~isalpha(attempt) THEN [heap |-> h, obj |-> s]
             ELSE IF attempt = s.secret_word
             THEN LET h1 == Alloc(h, CharSet(s.secret_word))
                  IN  ObjGameState(h1, s.secret_word, Len(h1), s.wrong_count, s.max_wrong,
                                   "won")
             ELSE LET h1 == Alloc(h, h[s.guessed])
                      made == ObjGameState(h1, s.secret_word, Len(h1), s.wrong_count + 1,
                                           s.max_wrong, s.status)
                  IN  Obj_check_outcome(made.heap, made.obj)

Obj_new_game(picked, max_wrong) ==
    LET word == lower(strip(IF Truthy(picked) THEN picked.str ELSE <<>>))
        h1 == Alloc(<<>>, {})
    IN  ObjGameState(h1, IF ~isalpha(word) THEN FallbackWord ELSE word, Len(h1), 0,
                     max_wrong, "playing")

\* ----------------------------------------------------------------- coach.py
\* code-point order of the letters, as sorted() compares them
CodePointOrder ==
    << "A", "B", "H", "N", "O", "P", "T", "Y",
       "a", "b", "e", "h", "i", "k", "l", "m", "n", "o", "p", "t", "y", "z", "U+0130" >>

CodePointRank(c) == CHOOSE i \in 1..Len(CodePointOrder) : CodePointOrder[i] = c

\* str.upper() of one lower-case letter
UpperChar(c) ==
    CASE c = "a" -> "A"
      [] c = "b" -> "B"
      [] c = "h" -> "H"
      [] c = "n" -> "N"
      [] c = "o" -> "O"
      [] c = "p" -> "P"
      [] c = "t" -> "T"
      [] c = "y" -> "Y"
      [] c = "e" -> "E"
      [] c = "k" -> "K"
      [] c = "l" -> "L"
      [] c = "m" -> "M"
      [] c = "z" -> "Z"
      [] c = "i" -> "I"
      [] OTHER -> c

\* _filter_candidates that forgets the wrong-letter rule
_filter_candidates_positions_only(secret, guessed, candidates) ==
    LET correct == CharSet(secret) \cap guessed
        L == Len(secret)
        Kept(w) ==
            IF Len(w) # L THEN FALSE
            ELSE \A i \in 1..Len(secret) : ~(<<secret[i]>> \in correct /\ w[i] # secret[i])
    IN  SelectSeq(candidates, Kept)

\* _filter_candidates that rejects a word holding any guessed letter
\* (guessed where the code has wrong)
_filter_candidates_any_guessed(secret, guessed, candidates) ==
    LET correct == CharSet(secret) \cap guessed
        L == Len(secret)
        Kept(w) ==
            IF Len(w) # L THEN FALSE
            ELSE IF \E ch \in guessed : IsSubstring(ch, w) THEN FALSE
            ELSE \A i \in 1..Len(secret) : ~(<<secret[i]>> \in correct /\ w[i] # secret[i])
    IN  SelectSeq(candidates, Kept)

\* _filter_candidates that stops at the first word of the wrong length
\* (break where the code has continue)
_filter_candidates_break(secret, guessed, candidates) ==
    LET correct == CharSet(secret) \cap guessed
        wrong == guessed \ CharSet(secret)
        L == Len(secret)
        Reached(k) == \A j \in 1..k : Len(candidates[j]) = L
        scanned == SubSeq(candidates, 1,
                          Cardinality({k \in 1..Len(candidates) : Reached(k)}))
        Kept(w) ==
            IF \E ch \in wrong : IsSubstring(ch, w) THEN FALSE
            ELSE \A i \in 1..Len(secret) : ~(<<secret[i]>> \in correct /\ w[i] # secret[i])
    IN  SelectSeq(scanned, Kept)

_filter_candidates(secret, guessed, candidates) ==
    LET correct == CharSet(secret) \cap guessed
        wrong == guessed \ CharSet(secret)
        L == Len(secret)
        Kept(w) ==
            IF Len(w) # L THEN FALSE
            ELSE IF \E ch \in wrong : IsSubstring(ch, w) THEN FALSE
            ELSE \A i \in 1..Len(secret) : ~(<<secret[i]>> \in correct /\ w[i] # secret[i])
    IN  SelectSeq(candidates, Kept)

\* _score_letters that counts every occurrence (iterates w, not set(w))
RECURSIVE _score_letters_multiplicity(_, _)
_score_letters_multiplicity(remaining, guessed) ==
    IF remaining = <<>> THEN [c \in {} |-> 0]
    ELSE LET before == _score_letters_multiplicity(SubSeq(remaining, 1, Len(remaining) - 1),
                                                   guessed)
             w == remaining[Len(remaining)]
             present == {w[i] : i \in 1..Len(w)}
             counted == {ch \in present : isalpha(<<ch>>) /\ <<ch>> \notin guessed}
         IN  [c \in DOMAIN before \cup counted |->
                 (IF c \in DOMAIN before THEN before[c] ELSE 0)
                 + Cardinality({i \in 1..Len(w) : w[i] = c /\ c \in counted})]

\* a Counter is a function whose domain is the set of keys that were incremented
RECURSIVE _score_letters(_, _)
_score_letters(remaining, guessed) ==
    IF remaining = <<>> THEN [c \in {} |-> 0]
    ELSE LET before == _score_letters(SubSeq(remaining, 1, Len(remaining) - 1), guessed)
             w == remaining[Len(remaining)]
             present == {w[i] : i \in 1..Len(w)}
             counted == {ch \in present : isalpha(<<ch>>) /\ <<ch>> \notin guessed}
         IN  [c \in DOMAIN before \cup counted |->
                 (IF c \in DOMAIN before THEN before[c] ELSE 0)
                 + (IF c \in counted THEN 1 ELSE 0)]

\* _best_letter that breaks ties towards the last letter
_best_letter_last(scores) ==
    IF DOMAIN scores = {} THEN PyNone
    ELSE LET max_score == CHOOSE m \in {scores[c] : c \in DOMAIN scores} :
                              \A c \in DOMAIN scores : scores[c] <= m
             candidates == {c \in DOMAIN scores : scores[c] = max_score}
         IN  PyStr(<<CHOOSE c \in candidates :
                        \A d \in candidates : CodePointRank(c) >= CodePointRank(d)>>)

_best_letter(scores) ==
    IF DOMAIN scores = {} THEN PyNone
    ELSE LET max_score == CHOOSE m \in {scores[c] : c \in DOMAIN scores} :
                              \A c \in DOMAIN scores : scores[c] <= m
             candidates == {c \in DOMAIN scores : scores[c] = max_score}
         IN  PyStr(<<CHOOSE c \in candidates :
                        \A d \in candidates : CodePointRank(c) <= CodePointRank(d)>>)

\* f"{x:.0f}" of x = 100 * num / den: nearest integer, ties to even
RoundHalfEven(num, den) ==
    LET q == (100 * num) \div den
        r == (100 * num) % den
    IN  IF 2 * r > den THEN q + 1
        ELSE IF 2 * r < den THEN q
        ELSE IF q % 2 = 0 THEN q ELSE q + 1

Max(a, b) == IF a >= b THEN a ELSE b

\* the sentence, kept as the values its template is filled with
_local_reason(secret, guessed, remaining, letter, score) ==
    LET m == mask_word(secret, guessed)
        denom == Max(1, Len(remaining))
    IN  [template |-> "local", letter |-> [i \in 1..Len(letter) |-> UpperChar(letter[i])],
         denom |-> denom, mask |-> m, pct |-> RoundHalfEven(score, denom)]

\* what the environment and the text-generation service do during one call
LlmBehaviours ==
    { [env |-> "offline", reply |-> PyNone],
      [env |-> "no_key", reply |-> PyNone],
      [env |-> "online", reply |-> PyRaise],
      [env |-> "online", reply |-> PyNone],
      [env |-> "online", reply |-> PyStr(<<>>)],
      [env |-> "online", reply |-> PyStr(<<" ">>)],
      [env |-> "online", reply |-> PyStr(<<" ", "t", "o", "p", " ">>)] }

\* _llm_reason that does not trim the reply
_llm_reason_untrimmed(mask, top_letter, remaining_count, llm) ==
    IF llm.env # "online" THEN PyNone
    ELSE IF llm.reply.type = "raise" THEN PyNone
    ELSE LET text == IF Truthy(llm.reply) THEN llm.reply.str ELSE <<>>
         IN  IF text # <<>> THEN PyStr(text) ELSE PyNone

_llm_reason(mask, top_letter, remaining_count, llm) ==
    IF llm.env # "online" THEN PyNone
    ELSE IF llm.reply.type = "raise" THEN PyNone
    ELSE LET text == strip(IF Truthy(llm.reply) THEN llm.reply.str ELSE <<>>)
         IN  IF text # <<>> THEN PyStr(text) ELSE PyNone

suggest_next_letter(secret, guessed, candidates, llm) ==
    LET remaining == _filter_candidates(secret, guessed, candidates)
        scores == _score_letters(remaining, guessed)
        best == _best_letter(scores)
        letter == IF Truthy(best) THEN best.str ELSE <<"e">>
        mask == mask_word(secret, guessed)
        score == IF letter[1] \in DOMAIN scores THEN scores[letter[1]] ELSE 0
        llm_text == _llm_reason(mask, letter, Len(remaining), llm)
    IN  IF Truthy(llm_text)
        THEN [letter |-> letter, text |-> llm_text, used_llm |-> TRUE,
              candidates_considered |-> Len(remaining)]
        ELSE [letter |-> letter,
              text |-> _local_reason(secret, guessed, remaining, letter, score),
              used_llm |-> FALSE, candidates_considered |-> Len(remaining)]

\* ------------------------------------------------------------ llm_picker.py
\* str.replace(ch, ""): every occurrence of one character removed
RECURSIVE Remove(_, _)
Remove(s, ch) ==
    IF s = <<>> THEN <<>>
    ELSE (IF Head(s) = ch THEN <<>> ELSE <<Head(s)>>) \o Remove(Tail(s), ch)

\* the retries parameter, which the driver leaves at its default
DefaultRetries == 2

\* the for loop: one completion call per attempt; replies[i] is what the
\* i-th call does (raises, or returns a message content: a str or None)
RECURSIVE pick_attempts(_, _)
pick_attempts(replies, attempts) ==
    IF attempts = 0 THEN PyNone
    ELSE IF Head(replies).type = "raise" THEN pick_attempts(Tail(replies), attempts - 1)
    ELSE LET content == IF Truthy(Head(replies)) THEN Head(replies).str ELSE <<>>
             word == strip(content)
         IN  PyStr(lower(strip(Remove(Remove(word, "\""), "'"))))

pick_with_llm(llm, retries) ==
    IF llm.env # "online" THEN PyNone
    ELSE pick_attempts(llm.replies, retries + 1)

\* -------------------------------------------------------------- tokenman.py
\* the default mistake budget of new_game, which the driver never overrides
DefaultMaxWrong == 6
\* _start_new_game: the word comes from pick_with_llm when that returns a
\* truthy value, from the local word list otherwise; the per-round keys of
\* the session are reset
_start_new_game(sess, llm, local_word) ==
    LET llm_word == pick_with_llm(llm, DefaultRetries)
        picked == IF Truthy(llm_word) THEN llm_word ELSE local_word
    IN  [game |-> new_game(picked, DefaultMaxWrong),
         session |-> [sess EXCEPT !.round_counted = FALSE,
                                  !.word_source = IF Truthy(llm_word) THEN "llm" ELSE "local"],
         llm_word |-> llm_word,
         picked |-> picked]

\* the guess form: the text is trimmed and lower-cased, one letter goes to
\* guess_letter, a longer alphabetic text to guess_word, anything else nowhere
submit_guess(game, guess_inp) ==
    IF game.status # "playing" THEN game
    ELSE LET g == lower(strip(IF Truthy(guess_inp) THEN guess_inp.str ELSE <<>>))
         IN  IF g = <<>> THEN game
             ELSE IF Len(g) = 1 /\ isalpha(g) THEN guess_letter(game, PyStr(g))
             ELSE IF isalpha(g) THEN guess_word(game, PyStr(g))
             ELSE game

\* the stats block that never sets round_counted
stats_update_uncounted(sess, game) ==
    IF game.status \in {"won", "lost"} /\ ~sess.round_counted
    THEN [sess EXCEPT !.stats.games = @ + 1,
                      !.stats.mistakes = @ + game.wrong_count,
                      !.stats.wins = @ + (IF game.status = "won" THEN 1 ELSE 0),
                      !.stats.losses = @ + (IF game.status = "won" THEN 0 ELSE 1)]
    ELSE sess

\* the stats block at the end of every script run
stats_update(sess, game) ==
    IF game.status \in {"won", "lost"} /\ ~sess.round_counted
    THEN [sess EXCEPT !.stats.games = @ + 1,
                      !.stats.mistakes = @ + game.wrong_count,
                      !.stats.wins = @ + (IF game.status = "won" THEN 1 ELSE 0),
                      !.stats.losses = @ + (IF game.status = "won" THEN 0 ELSE 1),
                      !.round_counted = TRUE]
    ELSE sess

\* the "Reset stats" button
reset_stats(sess) ==
    [sess EXCEPT !.stats = [games |-> 0, wins |-> 0, losses |-> 0, mistakes |-> 0]]

\* ------------------------------------------------------------------ inputs
PickerOutputs ==
    { PyStr(<<"a", "b">>), PyStr(<<"A", "b", "A">>), PyStr(<<" ", "a", "b", " ">>),
      PyStr(<<"P", "Y", "T", "H", "O", "N">>), PyStr(<<>>), PyStr(<<"a", "1">>),
      PyStr(<<"a", " ", "b">>), PyStr(<<"U+0130">>), PyNone, PyRaise }

LetterInputs ==
    { PyStr(<<"a">>), PyStr(<<"b">>), PyStr(<<"A">>), PyStr(<<"z">>), PyStr(<<"p">>),
      PyStr(<<"U+0130">>),
      PyStr(<<>>), PyStr(<<"a", "b">>), PyStr(<<"1">>), PyStr(<<"-">>), PyStr(<<" ">>),
      PyNone, PyInt(5) }

WordInputs ==
    { PyStr(<<"a">>), PyStr(<<"a", "b">>), PyStr(<<"A", "B", " ">>), PyStr(<<"b", "a">>),
      PyStr(<<"a", "b", "a">>), PyStr(<<"p", "y", "t", "h", "o", "n">>),
      PyStr(<<"U+0130">>),
      PyStr(<<>>), PyStr(<<" ">>), PyStr(<<"a", "1">>), PyStr(<<"a", " ", "b">>),
      PyNone, PyInt(0), PyInt(5) }

\* secrets and guessed letters of the rounds the coach is asked about
CoachSecrets == {<<"a", "p", "p", "l", "e">>, <<"a", "b">>}
CoachLetters == {<<"a">>, <<"p">>, <<"l">>, <<"e">>, <<"b">>, <<"z">>}
\* candidate pools handed to suggest_next_letter
CandidatePools ==
    { <<>>,
      << <<"a", "p", "p", "l", "e">>, <<"a", "m", "b", "l", "e">>,
         <<"a", "n", "k", "l", "e">>, <<"a", "p", "p", "l", "y">> >>,
      << <<"a", "p", "p", "l", "y">>, <<"a", "n", "k", "l", "e">>,
         <<"a", "p", "p", "l", "e">>, <<"a", "m", "b", "l", "e">> >>,
      << <<"a", "p", "p", "l", "e">>, <<"a", "b">>, <<"a", "p", "p", "l", "3">>,
         <<"a", "p", "p", "l", "e">> >>,
      << <<"a", "b">>, <<"a", "z">>, <<"a", "-">>, <<"b", "a">>, <<"a", "p", "p", "l", "e">> >>,
      << <<"a", "n", "k", "l", "e">>, <<"a", "m", "b", "l", "e">> >>,
      << <<"a", "p", "p", "l", "e">>, <<"a", "l", "p", "h", "a">>, <<"a", "a">>,
         <<"a", "b">> >> }
\* inputs of the rounds followed object by object
ObjPickerOutputs == {PyStr(<<"a", "b">>), PyStr(<<"A", "b", "A">>)}
ObjLetterInputs ==
    {PyStr(<<"a">>), PyStr(<<"B">>), PyStr(<<"z">>), PyStr(<<"U+0130">>), PyStr(<<"1">>)}
ObjWordInputs == {PyStr(<<"a", "b">>), PyStr(<<"b", "a">>), PyNone}
\* what a caller may hand to the GameState constructor directly
RawSecrets == {<<"a", "b">>, <<"A", "b", "a">>, <<"1">>, <<>>}
RawGuessedEntries == {<<"a">>, <<"b">>, <<"z">>, <<"A">>, <<"1">>, <<"a", "b">>, <<"U+0130">>}
RawStatus == StatusValues \cup {"paused"}
\* the secret_word argument of a direct construction
CtorSecrets ==
    { PyStr(<<"a", "b">>), PyStr(<<"A", "p", "p", "l", "e">>), PyStr(<<"1", "2", "3">>),
      PyStr(<<" ", "a", "B", " ">>), PyStr(<<"a", " ", "b">>), PyStr(<<>>), PyStr(<<" ">>),
      PyStr(<<"U+0130">>), PyNone }

\* what the completion call of pick_with_llm does on one attempt
PickerReplies ==
    { PyRaise, PyNone, PyStr(<<>>), PyStr(<<" ", "\"", "A", "b", "\"", " ">>),
      PyStr(<<"a", " ", "b">>), PyStr(<<"a", "1">>) }
PickerEnvs == {"offline", "no_key", "online"}
\* what pick_local_word_plain returns: a line of the word list, or "python"
LocalWords == {PyStr(<<"a", "b">>), PyStr(<<"p", "y", "t", "h", "o", "n">>), PyStr(<<"a", "1">>)}

\* what the player types into the guess form
GuessTexts ==
    { PyStr(<<"a">>), PyStr(<<" ", "B", " ">>), PyStr(<<"z">>), PyStr(<<"a", "b">>),
      PyStr(<<"b", "a">>), PyStr(<<>>), PyStr(<<"a", "1">>), PyStr(<<"U+0130">>) }
\* the word sources of the rounds a session plays
SessionPickers ==
    { [llm |-> [env |-> "offline", replies |-> <<PyNone, PyNone, PyNone>>],
       local |-> PyStr(<<"a", "b">>)],
      [llm |-> [env |-> "online",
                replies |-> <<PyRaise, PyStr(<<" ", "\"", "A", "b", "\"", " ">>), PyNone>>],
       local |-> PyStr(<<"a", "1">>)],
      [llm |-> [env |-> "online", replies |-> <<PyNone, PyNone, PyNone>>],
       local |-> PyStr(<<"a", "1">>)] }

\* ------------------------------------------------------------------- state
VARIABLES
    state,  \* the GameState the driver holds
    prev,   \* the GameState handed to the last operation
    op,     \* the last operation
    arg,    \* its input: [v |-> a Python value, max_wrong |-> Int]
    exc,    \* the exception the last operation raised, or "none"
    coach_suggestion,  \* session_state["coach_suggestion"]: a CoachSuggestion or None
    memory, \* the set objects behind the GameStates a driver keeps:
            \* [heap |-> contents by object id, held |-> the GameState objects kept,
            \*  seen |-> the value each had when it was returned]
    log,    \* what the player did in the current round:
            \* [accepted |-> the lower-case forms of the single letters whose
            \*  guess_letter call changed the state, revealed |-> the letters a
            \*  correct whole-word guess revealed, changes |-> the number of
            \*  calls that returned a state other than the one they were given,
            \*  counted |-> how many times the round was added to stats.games,
            \*  mistakes_added |-> what the round added to stats.mistakes]
    session \* session_state of the driver: [stats |-> [games, wins, losses,
            \* mistakes], round_counted |-> BOOLEAN, word_source |-> a tag]

vars == <<state, prev, op, arg, exc, coach_suggestion, memory, log, session>>

\* a round in which the player has done nothing yet
NoLog == [accepted |-> {}, revealed |-> {}, changes |-> 0, counted |-> 0, mistakes_added |-> 0]

\* _init_stats and _init_round_state on an empty session
NoSession ==
    [stats |-> [games |-> 0, wins |-> 0, losses |-> 0, mistakes |-> 0],
     round_counted |-> FALSE, word_source |-> "unknown"]

\* specifications that work on values do not look at object identity
NoMemory == [heap |-> <<>>, held |-> <<>>, seen |-> <<>>]

NoArg == [v |-> PyNone, max_wrong |-> 0]

\* a round just started by new_game
Init ==
    \E picked \in PickerOutputs, mw \in 1..MaxWrongBound :
        /\ ~IsError(new_game(picked, mw))
        /\ state = new_game(picked, mw)
        /\ prev = state
        /\ op = "new_game"
        /\ arg = [v |-> picked, max_wrong |-> mw]
        /\ exc = "none"
        /\ coach_suggestion = PyNone
        /\ memory = NoMemory
        /\ log = NoLog
        /\ session = NoSession

\* any value the GameState constructor accepts
InitAny ==
    \E sw \in RawSecrets, g \in SUBSET RawGuessedEntries, wc \in -1..MaxRawWrong,
       mw \in 0..MaxWrongBound, st \in RawStatus :
        /\ ~IsError(GameState(sw, g, wc, mw, st))
        /\ state = GameState(sw, g, wc, mw, st)
        /\ prev = state
        /\ op = "construct"
        /\ arg = NoArg
        /\ exc = "none"
        /\ coach_suggestion = PyNone
        /\ memory = NoMemory
        /\ log = NoLog
        /\ session = NoSession

\* the driver replaces its GameState by a new round; an exception leaves it as it was
NewGame ==
    \E picked \in PickerOutputs, mw \in 0..MaxWrongBound :
        LET result == new_game(picked, mw)
        IN  /\ prev' = state
            /\ op' = "new_game"
            /\ arg' = [v |-> picked, max_wrong |-> mw]
            /\ UNCHANGED <<memory, session>>
            /\ IF IsError(result)
               THEN state' = state /\ exc' = result.error /\ UNCHANGED <<coach_suggestion, log>>
               ELSE state' = result /\ exc' = "none" /\ coach_suggestion' = PyNone
                    /\ log' = NoLog

GuessLetter ==
    \E ch \in LetterInputs :
        LET result == guess_letter(state, ch)
        IN  /\ prev' = state
            /\ op' = "guess_letter"
            /\ arg' = [v |-> ch, max_wrong |-> 0]
            /\ UNCHANGED <<coach_suggestion, memory, session>>
            /\ IF IsError(result)
               THEN state' = state /\ exc' = result.error /\ UNCHANGED log
               ELSE /\ state' = result
                    /\ exc' = "none"
                    /\ log' = IF result = state THEN log
                               ELSE [log EXCEPT !.accepted = @ \cup {lower(ch.str)},
                                                !.changes = @ + 1]

GuessWord ==
    \E w \in WordInputs :
        LET result == guess_word(state, w)
        IN  /\ prev' = state
            /\ op' = "guess_word"
            /\ arg' = [v |-> w, max_wrong |-> 0]
            /\ UNCHANGED <<coach_suggestion, memory, session>>
            /\ IF IsError(result)
               THEN state' = state /\ exc' = result.error /\ UNCHANGED log
               ELSE /\ state' = result
                    /\ exc' = "none"
                    /\ log' = IF result = state THEN log
                               ELSE IF result.wrong_count = state.wrong_count
                               THEN [log EXCEPT !.revealed = CharSet(state.secret_word),
                                                !.changes = @ + 1]
                               ELSE [log EXCEPT !.changes = @ + 1]

Next == NewGame \/ GuessLetter \/ GuessWord

Spec == Init /\ [][Next]_vars

NextAny == GuessLetter \/ GuessWord

SpecAny == InitAny /\ [][NextAny]_vars

\* ---- the GameState constructor on its own: arguments drawn, then applied
BaseState == new_game(PyNone, 1)

InitCtor ==
    \E sw \in CtorSecrets, g \in SUBSET RawGuessedEntries, wc \in -1..MaxRawWrong,
       mw \in 0..MaxWrongBound, st \in RawStatus :
        /\ state = BaseState
        /\ prev = BaseState
        /\ op = "arguments"
        /\ arg = [v |-> sw, max_wrong |-> mw, guessed |-> g, wrong_count |-> wc,
                  status |-> st]
        /\ exc = "none"
        /\ coach_suggestion = PyNone
        /\ memory = NoMemory
        /\ log = NoLog
        /\ session = NoSession

Construct ==
    /\ op = "arguments"
    /\ LET result == GameState(IF Truthy(arg.v) THEN arg.v.str ELSE <<>>, arg.guessed,
                               arg.wrong_count, arg.max_wrong, arg.status)
       IN  /\ prev' = state
           /\ op' = "construct"
           /\ UNCHANGED <<arg, coach_suggestion, memory, log, session>>
           /\ IF IsError(result)
              THEN state' = state /\ exc' = result.error
              ELSE state' = result /\ exc' = "none"

SpecCtor == InitCtor /\ [][Construct]_vars

\* ---- _start_new_game on its own: the environment, the three completion
\* calls and the local word drawn, then applied
InitPicker ==
    \E env \in PickerEnvs, replies \in [1..(DefaultRetries + 1) -> PickerReplies],
       local \in LocalWords :
        /\ state = BaseState
        /\ prev = BaseState
        /\ op = "arguments"
        /\ arg = [v |-> PyNone, max_wrong |-> DefaultMaxWrong,
                  llm |-> [env |-> env, replies |-> replies], local |-> local,
                  llm_word |-> PyNone]
        /\ exc = "none"
        /\ coach_suggestion = PyNone
        /\ memory = NoMemory
        /\ log = NoLog
        /\ session = NoSession

StartNewGame ==
    /\ op = "arguments"
    /\ LET started == _start_new_game(session, arg.llm, arg.local)
       IN  /\ prev' = state
           /\ op' = "_start_new_game"
           /\ arg' = [arg EXCEPT !.v = started.picked, !.llm_word = started.llm_word]
           /\ state' = started.game
           /\ session' = started.session
           /\ coach_suggestion' = PyNone
           /\ log' = NoLog
           /\ exc' = "none"
           /\ UNCHANGED memory

SpecPicker == InitPicker /\ [][StartNewGame]_vars

\* ---- a session of the driver: every action is one UI event and the script
\* runs it causes, each of which ends with the stats block
InitUI ==
    \E pk \in SessionPickers :
        LET started == _start_new_game(NoSession, pk.llm, pk.local)
        IN  /\ state = started.game
            /\ prev = started.game
            /\ op = "_start_new_game"
            /\ arg = [v |-> started.picked, max_wrong |-> DefaultMaxWrong]
            /\ exc = "none"
            /\ coach_suggestion = PyNone
            /\ memory = NoMemory
            /\ log = NoLog
            /\ session = stats_update(started.session, started.game)

\* "Submit" on the guess form, then the rerun it asks for
UISubmit ==
    \E text \in GuessTexts :
        LET game == submit_guess(state, text)
            g == lower(strip(text.str))
            after == stats_update(session, game)
        IN  /\ state' = game
            /\ session' = after
            /\ prev' = state
            /\ op' = "submit"
            /\ arg' = [v |-> text, max_wrong |-> 0]
            /\ exc' = "none"
            /\ log' = [accepted |-> IF game # state /\ Len(g) = 1
                                    THEN log.accepted \cup {g} ELSE log.accepted,
                       revealed |-> IF game # state /\ Len(g) # 1
                                       /\ game.wrong_count = state.wrong_count
                                    THEN CharSet(state.secret_word) ELSE log.revealed,
                       changes |-> log.changes + (IF game # state THEN 1 ELSE 0),
                       counted |-> log.counted + (after.stats.games - session.stats.games),
                       mistakes_added |-> log.mistakes_added
                                          + (after.stats.mistakes - session.stats.mistakes)]
            /\ UNCHANGED <<coach_suggestion, memory>>

\* "New Game" or "Play again", then the rerun
UINewGame ==
    /\ session.stats.games < MaxGames
    /\ \E pk \in SessionPickers :
        LET started == _start_new_game(session, pk.llm, pk.local)
        IN  /\ state' = started.game
            /\ session' = stats_update(started.session, started.game)
            /\ prev' = state
            /\ op' = "_start_new_game"
            /\ arg' = [v |-> started.picked, max_wrong |-> DefaultMaxWrong]
            /\ exc' = "none"
            /\ coach_suggestion' = PyNone
            /\ log' = NoLog
            /\ UNCHANGED memory

\* "Reset stats": the same script run goes on to the stats block
UIResetStats ==
    LET cleared == reset_stats(session)
        after == stats_update(cleared, state)
    IN  /\ session' = after
        /\ prev' = state
        /\ op' = "reset_stats"
        /\ arg' = NoArg
        /\ exc' = "none"
        /\ log' = [log EXCEPT !.counted = @ + (after.stats.games - cleared.stats.games),
                               !.mistakes_added =
                                   @ + (after.stats.mistakes - cleared.stats.mistakes)]
        /\ UNCHANGED <<state, coach_suggestion, memory>>

\* a script run no button or form caused
UIRerun ==
    LET after == stats_update(session, state)
    IN  /\ session' = after
        /\ prev' = state
        /\ op' = "rerun"
        /\ arg' = NoArg
        /\ exc' = "none"
        /\ log' = [log EXCEPT !.counted = @ + (after.stats.games - session.stats.games),
                               !.mistakes_added =
                                   @ + (after.stats.mistakes - session.stats.mistakes)]
        /\ UNCHANGED <<state, coach_suggestion, memory>>

NextUI == UISubmit \/ UINewGame \/ UIResetStats \/ UIRerun

SpecUI == InitUI /\ [][NextUI]_vars

\* ---- the coach on a Playing round: the driver's "Coach: Next Letter" button
InitCoach ==
    \E secret \in CoachSecrets, g \in SUBSET CoachLetters :
        LET wc == Cardinality(g \ CharSet(secret))
        IN  /\ wc < DefaultMaxWrong
            /\ ~(CharSet(secret) \subseteq g)
            /\ state = GameState(secret, g, wc, DefaultMaxWrong, "playing")
            /\ prev = state
            /\ op = "round"
            /\ arg = NoArg
            /\ exc = "none"
            /\ coach_suggestion = PyNone
        /\ memory = NoMemory
        /\ log = NoLog
        /\ session = NoSession

Suggest ==
    /\ state.status = "playing"
    /\ \E pool \in CandidatePools, llm \in LlmBehaviours :
        /\ coach_suggestion' =
              suggest_next_letter(state.secret_word, state.guessed, pool, llm)
        /\ prev' = state
        /\ op' = "suggest"
        /\ arg' = [v |-> PyNone, max_wrong |-> 0, candidates |-> pool, llm |-> llm]
        /\ exc' = "none"
        /\ UNCHANGED <<state, memory, log, session>>

SpecCoach == InitCoach /\ [][Suggest]_vars

\* ---- a round followed object by object; the driver keeps every GameState
\* object it was handed
Current == memory.held[Len(memory.held)]

InitObj ==
    \E picked \in ObjPickerOutputs, mw \in 1..MaxWrongBound :
        LET made == Obj_new_game(picked, mw)
        IN  /\ memory = [heap |-> made.heap, held |-> <<made.obj>>,
                         seen |-> <<Deref(made.heap, made.obj)>>]
            /\ state = Deref(made.heap, made.obj)
            /\ prev = state
            /\ op = "new_game"
            /\ arg = [v |-> picked, max_wrong |-> mw]
            /\ exc = "none"
            /\ coach_suggestion = PyNone
            /\ log = NoLog
            /\ session = NoSession

ObjGuessLetter ==
    \E ch \in ObjLetterInputs :
        LET made == Obj_guess_letter(memory.heap, Current, ch)
        IN  /\ memory' =
                  [heap |-> made.heap,
                   held |-> IF made.obj = Current THEN memory.held
                            ELSE Append(memory.held, made.obj),
                   seen |-> IF made.obj = Current THEN memory.seen
                            ELSE Append(memory.seen, Deref(made.heap, made.obj))]
            /\ state' = Deref(made.heap, made.obj)
            /\ prev' = state
            /\ op' = "guess_letter"
            /\ arg' = [v |-> ch, max_wrong |-> 0]
            /\ exc' = "none"
            /\ UNCHANGED <<coach_suggestion, log, session>>

ObjGuessWord ==
    \E w \in ObjWordInputs :
        LET made == Obj_guess_word(memory.heap, Current, w)
        IN  /\ memory' =
                  [heap |-> made.heap,
                   held |-> IF made.obj = Current THEN memory.held
                            ELSE Append(memory.held, made.obj),
                   seen |-> IF made.obj = Current THEN memory.seen
                            ELSE Append(memory.seen, Deref(made.heap, made.obj))]
            /\ state' = Deref(made.heap, made.obj)
            /\ prev' = state
            /\ op' = "guess_word"
            /\ arg' = [v |-> w, max_wrong |-> 0]
            /\ exc' = "none"
            /\ UNCHANGED <<coach_suggestion, log, session>>

NextObj == ObjGuessLetter \/ ObjGuessWord

SpecObj == InitObj /\ [][NextObj]_vars

TypeOK ==
    /\ state.status \in StatusValues
    /\ state.max_wrong >= 1
    /\ state.wrong_count >= 0
    /\ isalpha(state.secret_word)

\* ------------------------------------------------------------ vocabulary
\* every distinct character of the secret is a member of guessed
SecretRevealed(s) == \A i \in 1..Len(s.secret_word) : <<s.secret_word[i]>> \in s.guessed

WonIffRevealed(s) == (s.status = "won") <=> SecretRevealed(s)

\* the last operation was a guess that returned a state
GuessReturned == op \in {"guess_letter", "guess_word"} /\ exc = "none"

\* the text of a str input, "" for an absent one
TextOf(v) == IF v.type = "str" THEN v.str ELSE <<>>

\* the outcome rule of the specification, applied to a Playing state's fields
DerivedStatus(s) ==
    IF SecretRevealed(s) THEN "won"
    ELSE IF s.wrong_count >= s.max_wrong THEN "lost"
    ELSE "playing"

\* -------------------------------------------------------------------- C1
\* C1 (as stated): for every constructible GameState and every input, the
\* state returned by a guess has status won iff every distinct character of
\* the secret is in its guessed set.
C1_WonIffRevealed_AnyState == GuessReturned => WonIffRevealed(state)

\* C1 (amended): when the GameState handed to a guess has status won iff its
\* secret is revealed, the returned state has status won iff its secret is
\* revealed.
C1_WonIffRevealed_Preserved ==
    (GuessReturned /\ WonIffRevealed(prev)) => WonIffRevealed(state)

C1_Witness ==
    /\ GuessReturned
    /\ WonIffRevealed(prev)
    /\ prev.status = "playing"
    /\ prev.wrong_count >= prev.max_wrong
    /\ state.status = "won"

\* -------------------------------------------------------------------- C2
\* C2: a guess on a state whose status is won or lost returns that state
\* unchanged, whatever the input, and raises nothing.
C2_TerminalNoOp ==
    (op \in {"guess_letter", "guess_word"} /\ prev.status # "playing")
        => (state = prev /\ exc = "none")

C2_Witness ==
    /\ op = "guess_letter"
    /\ prev.status = "lost"
    /\ arg.v = PyStr(<<"b">>)
    /\ <<"b">> \notin prev.guessed
    /\ state = prev

\* -------------------------------------------------------------------- C3
\* C3: in every state reachable from new_game, wrong_count >= max_wrong
\* implies status lost.
C3_LostAtBudget == state.wrong_count >= state.max_wrong => state.status = "lost"

C3_Witness ==
    /\ op = "guess_letter"
    /\ prev.status = "playing"
    /\ state.wrong_count = state.max_wrong
    /\ state.status = "lost"

\* -------------------------------------------------------------------- C4
\* C4: guess_letter is idempotent: submitting the letter just submitted, in
\* either case, returns the state unchanged.
C4_Idempotent ==
    (op = "guess_letter" /\ exc = "none")
        => \A ch \in LetterInputs :
              (ch.type = "str" /\ arg.v.type = "str" /\ lower(ch.str) = lower(arg.v.str))
                  => guess_letter(state, ch) = state

\* -------------------------------------------------------------------- C5
\* C5: guess_letter on a Playing state with one alphabetic character whose
\* lower-case form is not in guessed adds that form to guessed, adds 1 to
\* wrong_count iff it does not occur in the secret, keeps secret and
\* max_wrong, and re-derives status by the outcome rule.
AcceptedLetter ==
    /\ op = "guess_letter"
    /\ prev.status = "playing"
    /\ arg.v.type = "str"
    /\ Len(arg.v.str) = 1
    /\ isalpha(arg.v.str)
    /\ lower(arg.v.str) \notin prev.guessed

C5_LetterApplied ==
    AcceptedLetter =>
        /\ exc = "none"
        /\ state.guessed = prev.guessed \cup {lower(arg.v.str)}
        /\ state.wrong_count =
              prev.wrong_count + (IF IsSubstring(lower(arg.v.str), prev.secret_word) THEN 0 ELSE 1)
        /\ state.secret_word = prev.secret_word
        /\ state.max_wrong = prev.max_wrong
        /\ state.status = DerivedStatus(state)

\* -------------------------------------------------------------------- C6
\* C6: guess_word on a Playing state with the secret (after trimming and
\* lower-casing) returns status won, guessed exactly the distinct characters
\* of the secret, and wrong_count, secret and max_wrong unchanged.
CorrectWord ==
    /\ op = "guess_word"
    /\ prev.status = "playing"
    /\ arg.v.type = "str"
    /\ lower(strip(arg.v.str)) = prev.secret_word

C6_CorrectWordWins ==
    CorrectWord =>
        /\ exc = "none"
        /\ state.status = "won"
        /\ state.guessed = {<<prev.secret_word[i]>> : i \in 1..Len(prev.secret_word)}
        /\ state.wrong_count = prev.wrong_count
        /\ state.secret_word = prev.secret_word
        /\ state.max_wrong = prev.max_wrong

C6_Witness ==
    /\ CorrectWord
    /\ arg.v = PyStr(<<"A", "B", " ">>)
    /\ <<"z">> \in prev.guessed
    /\ <<"z">> \notin state.guessed
    /\ state.status = "won"

\* -------------------------------------------------------------------- C7
\* C7: guess_word on a Playing state with a purely alphabetic word other
\* than the secret adds exactly 1 to wrong_count whatever the word's length,
\* keeps guessed and secret, and leaves status lost iff the new wrong_count
\* has reached max_wrong (playing otherwise).
WrongWord ==
    /\ op = "guess_word"
    /\ prev.status = "playing"
    /\ arg.v.type = "str"
    /\ isalpha(lower(strip(arg.v.str)))
    /\ lower(strip(arg.v.str)) # prev.secret_word

C7_WrongWordOneStrike ==
    WrongWord =>
        /\ exc = "none"
        /\ state.wrong_count = prev.wrong_count + 1
        /\ state.guessed = prev.guessed
        /\ state.secret_word = prev.secret_word
        /\ state.max_wrong = prev.max_wrong
        /\ state.status = (IF state.wrong_count >= state.max_wrong THEN "lost" ELSE "playing")

C7_Witness ==
    /\ WrongWord
    /\ Len(lower(strip(arg.v.str))) > Len(prev.secret_word)
    /\ prev.guessed # {}
    /\ state.wrong_count = prev.wrong_count + 1
    /\ state.status = "playing"

\* the shorter and the equal-length wrong word are reached as well
C7_WitnessShorter ==
    WrongWord /\ Len(lower(strip(arg.v.str))) < Len(prev.secret_word) /\ state.status = "lost"

C7_WitnessSameLength ==
    WrongWord /\ Len(lower(strip(arg.v.str))) = Len(prev.secret_word)

\* -------------------------------------------------------------------- C8
\* C8: a guess_letter input that is not exactly one alphabetic character,
\* and a guess_word input (a str or absent) that trimmed and lower-cased is
\* not purely alphabetic, return the input state unchanged and raise nothing.
MalformedLetter ==
    /\ op = "guess_letter"
    /\ ~(arg.v.type = "str" /\ Len(arg.v.str) = 1 /\ isalpha(arg.v.str))

MalformedWord ==
    /\ op = "guess_word"
    /\ arg.v.type \in {"str", "NoneType"}
    /\ ~isalpha(lower(strip(TextOf(arg.v))))

C8_MalformedAbsorbed ==
    (MalformedLetter \/ MalformedWord) => (state = prev /\ exc = "none")

C8_Witness ==
    /\ MalformedLetter
    /\ arg.v = PyStr(<<"1">>)
    /\ prev.status = "playing"
    /\ prev.wrong_count = 0
    /\ state = prev

C8_WitnessWord ==
    MalformedWord /\ arg.v = PyStr(<<"a", " ", "b">>) /\ prev.status = "playing"

\* -------------------------------------------------------------------- C9
\* C9: the mask has one symbol per position of the secret, in order and
\* separated by single spaces: the character when it is in guessed, "_"
\* otherwise; with the whole secret revealed the symbols spell the secret,
\* and with no letter of the secret guessed every symbol is "_".
MaskSymbols(m) == [i \in 1..((Len(m) + 1) \div 2) |-> m[2 * i - 1]]

C9_MaskShape ==
    LET secret == state.secret_word
        m == mask_word(secret, state.guessed)
    IN  /\ Len(m) = 2 * Len(secret) - 1
        /\ \A i \in 1..Len(secret) :
              m[2 * i - 1] = (IF <<secret[i]>> \in state.guessed THEN secret[i] ELSE "_")
        /\ \A i \in 1..(Len(secret) - 1) : m[2 * i] = " "
        /\ SecretRevealed(state) => MaskSymbols(m) = secret
        /\ (\A i \in 1..Len(secret) : <<secret[i]>> \notin state.guessed)
              => \A i \in 1..Len(secret) : MaskSymbols(m)[i] = "_"

C9_Witness ==
    /\ state.secret_word = <<"a", "b", "a">>
    /\ state.guessed = {<<"a">>, <<"z">>}
    /\ mask_word(state.secret_word, state.guessed) = <<"a", " ", "_", " ", "a">>

C9_WitnessRevealed ==
    SecretRevealed(state) /\ mask_word(state.secret_word, state.guessed) = <<"a", " ", "b">>

\* ------------------------------------------------------------------- C10
\* C10: when the picker returns (a str or nothing) and max_wrong >= 1,
\* new_game returns a Playing state with empty guessed, wrong_count 0, the
\* given max_wrong, and as secret the picker's output trimmed and lower-cased
\* when that is purely alphabetic, "python" otherwise.
PickerReturned ==
    /\ op = "new_game"
    /\ arg.v.type \in {"str", "NoneType"}
    /\ arg.max_wrong >= 1

C10_NewGameFresh ==
    PickerReturned =>
        LET word == lower(strip(TextOf(arg.v)))
        IN  /\ exc = "none"
            /\ state.guessed = {}
            /\ state.wrong_count = 0
            /\ state.status = "playing"
            /\ state.max_wrong = arg.max_wrong
            /\ state.secret_word =
                  (IF isalpha(word) THEN word ELSE <<"p", "y", "t", "h", "o", "n">>)
            /\ arg.v = PyStr(<<"P", "Y", "T", "H", "O", "N">>)
                  => state.secret_word = <<"p", "y", "t", "h", "o", "n">>

C10_Witness ==
    /\ PickerReturned
    /\ arg.v = PyStr(<<" ", "a", "b", " ">>)
    /\ state.secret_word = <<"a", "b">>
    /\ prev.status = "won"

C10_WitnessFallback ==
    PickerReturned /\ arg.v = PyStr(<<"a", "1">>) /\ state.secret_word = FallbackWord

\* ------------------------------------------------------------------- C11
\* C11: whatever the picker does (returns "", returns nothing, returns
\* mixed-case or non-alphabetic text, or throws), new_game with
\* max_wrong >= 1 raises nothing and returns a fresh Playing state, with the
\* fallback word as secret when the picker gave no usable word.
PickerFault ==
    \/ arg.v.type \in {"NoneType", "raise"}
    \/ (arg.v.type = "str" /\ ~isalpha(lower(strip(arg.v.str))))

C11_PickerFaultAbsorbed ==
    (op = "new_game" /\ arg.max_wrong >= 1) =>
        /\ exc = "none"
        /\ state.status = "playing"
        /\ state.guessed = {}
        /\ state.wrong_count = 0
        /\ PickerFault => state.secret_word = <<"p", "y", "t", "h", "o", "n">>

\* ------------------------------------------------------------------- C12
\* C12: constructing a GameState raises exactly when the secret, trimmed, is
\* empty or contains a non-alphabetic character, or max_wrong < 1, or
\* wrong_count < 0, or status is not playing/won/lost; otherwise it succeeds
\* with the secret trimmed and lower-cased and guessed reduced to the
\* lower-cased forms of its single alphabetic entries.
CtorNumbersBad ==
    \/ arg.max_wrong < 1
    \/ arg.wrong_count < 0
    \/ arg.status \notin {"playing", "won", "lost"}

CtorNormalized ==
    /\ state.secret_word = lower(strip(TextOf(arg.v)))
    /\ state.guessed = {lower(g) : g \in {x \in arg.guessed : Len(x) = 1 /\ isalpha(x)}}
    /\ state.wrong_count = arg.wrong_count
    /\ state.max_wrong = arg.max_wrong
    /\ state.status = arg.status

C12_ConstructionFailsExactlyWhen ==
    op = "construct" =>
        /\ (exc # "none") <=> (~isalpha(strip(TextOf(arg.v))) \/ CtorNumbersBad)
        /\ exc = "none" => CtorNormalized

\* the same with the alphabetic test made on the lower-cased secret, which
\* is what holds of every construction
C12_FailsExactlyWhen_Lowered ==
    op = "construct" =>
        /\ (exc # "none") <=> (~isalpha(lower(strip(TextOf(arg.v)))) \/ CtorNumbersBad)
        /\ exc = "none" => CtorNormalized

C12_WitnessApple ==
    /\ op = "construct"
    /\ arg.v = PyStr(<<"A", "p", "p", "l", "e">>)
    /\ exc = "none"
    /\ state.secret_word = <<"a", "p", "p", "l", "e">>
    /\ state.guessed = {<<"a">>, <<"z">>}

\* ------------------------------------------------------- coach vocabulary
Apple == <<"a", "p", "p", "l", "e">>
Apply == <<"a", "p", "p", "l", "y">>
ExamplePool == <<Apple, <<"a", "m", "b", "l", "e">>, <<"a", "n", "k", "l", "e">>, Apply>>

Occurs(c, w) == \E i \in 1..Len(w) : w[i] = c

\* the three filter rules of the specification, for one pool word
ConsistentWord(secret, guessed, w) ==
    /\ Len(w) = Len(secret)
    /\ \A g \in guessed : (~Occurs(g[1], secret)) => ~Occurs(g[1], w)
    /\ \A i \in 1..Len(secret) : <<secret[i]>> \in guessed => w[i] = secret[i]

RECURSIVE Keep(_, _, _)
Keep(secret, guessed, pool) ==
    IF pool = <<>> THEN <<>>
    ELSE (IF ConsistentWord(secret, guessed, Head(pool)) THEN <<Head(pool)>> ELSE <<>>)
         \o Keep(secret, guessed, Tail(pool))

Suggested == op = "suggest"

Retained == _filter_candidates(state.secret_word, state.guessed, arg.candidates)

\* ------------------------------------------------------------------- C13
\* C13: the filter retains a pool word iff it has the secret's length,
\* contains no guessed letter that is absent from the secret, and agrees with
\* the secret at every position whose letter is guessed; candidates_considered
\* is the number of retained words; for secret "apple", guessed {a,p,z} and
\* pool [apple, amble, ankle, apply] exactly apple and apply are retained.
C13_FilterRetainsConsistent ==
    Suggested =>
        /\ Retained = Keep(state.secret_word, state.guessed, arg.candidates)
        /\ coach_suggestion.candidates_considered =
              Len(Keep(state.secret_word, state.guessed, arg.candidates))
        /\ (/\ state.secret_word = Apple
            /\ state.guessed = {<<"a">>, <<"p">>, <<"z">>}
            /\ arg.candidates = ExamplePool) => Retained = <<Apple, Apply>>

C13_Witness ==
    /\ Suggested
    /\ state.secret_word = Apple
    /\ state.guessed = {<<"a">>, <<"p">>, <<"z">>}
    /\ arg.candidates = ExamplePool
    /\ coach_suggestion.candidates_considered = 2

\* ------------------------------------------------------------------- C14
\* C14: every letter not in guessed scores the number of retained words in
\* which it occurs at least once; no letter of guessed has a score; every
\* score lies between 1 and the number of retained words.
ScoreOf(scores, c) == IF c \in DOMAIN scores THEN scores[c] ELSE 0

C14_ScoreIsPresenceCount ==
    Suggested =>
        LET scores == _score_letters(Retained, state.guessed)
        IN  /\ \A c \in LowerAlpha \cup UpperAlpha :
                  IF <<c>> \in state.guessed
                  THEN c \notin DOMAIN scores
                  ELSE ScoreOf(scores, c) =
                          Cardinality({i \in 1..Len(Retained) : Occurs(c, Retained[i])})
            /\ \A c \in DOMAIN scores : scores[c] >= 1 /\ scores[c] <= Len(Retained)

C14_Witness ==
    /\ Suggested
    /\ state.secret_word = Apple
    /\ state.guessed = {<<"a">>}
    /\ arg.candidates = ExamplePool
    /\ _score_letters(Retained, state.guessed)["p"] = 2
    /\ _score_letters(Retained, state.guessed)["l"] = 4

\* ------------------------------------------------------------------- C15
\* C15: the suggested letter has the maximum score and is the alphabetically
\* smallest letter with that score; when no letter has a score it is "e"; for
\* retained words [apple, apply] and guessed {a,p} it is "l".
Alphabet == <<"a", "b", "e", "h", "i", "k", "l", "m", "n", "o", "p", "t", "y", "z">>
AlphabetIndex(c) == CHOOSE i \in 1..Len(Alphabet) : Alphabet[i] = c

C15_BestLetter ==
    Suggested =>
        LET scores == _score_letters(Retained, state.guessed)
            letter == coach_suggestion.letter
        IN  /\ Len(letter) = 1
            /\ IF DOMAIN scores = {}
               THEN letter = <<"e">>
               ELSE /\ letter[1] \in DOMAIN scores
                    /\ \A d \in DOMAIN scores :
                          \/ scores[d] < scores[letter[1]]
                          \/ (scores[d] = scores[letter[1]]
                                /\ AlphabetIndex(letter[1]) <= AlphabetIndex(d))
            /\ (Retained = <<Apple, Apply>> /\ state.guessed = {<<"a">>, <<"p">>})
                  => letter = <<"l">>

C15_Witness ==
    /\ Suggested
    /\ Retained = <<Apple, Apply>>
    /\ state.guessed = {<<"a">>, <<"p">>}
    /\ coach_suggestion.letter = <<"l">>

C15_WitnessTie ==
    /\ Suggested
    /\ state.secret_word = <<"a", "b">>
    /\ state.guessed = {}
    /\ Retained = << <<"a", "b">>, <<"a", "z">>, <<"a", "-">>, <<"b", "a">> >>
    /\ coach_suggestion.letter = <<"a">>

C15_WitnessFallback ==
    Suggested /\ arg.candidates # <<>> /\ Retained = <<>> /\ coach_suggestion.letter = <<"e">>

\* ------------------------------------------------------------------- C16
\* C16: a pool word of the wrong length or with a character that is not a
\* letter is never retained: it is not counted in candidates_considered and
\* adds to no letter's score, and the call raises nothing.
WellFormed(w) == Len(w) = Len(state.secret_word) /\ isalpha(w)

RECURSIVE OnlyWellFormed(_)
OnlyWellFormed(pool) ==
    IF pool = <<>> THEN <<>>
    ELSE (IF WellFormed(Head(pool)) THEN <<Head(pool)>> ELSE <<>>) \o OnlyWellFormed(Tail(pool))

C16_MalformedEntriesExcluded ==
    Suggested =>
        /\ exc = "none"
        /\ \A i \in 1..Len(Retained) : WellFormed(Retained[i])
        /\ coach_suggestion.candidates_considered =
              Len(Keep(state.secret_word, state.guessed, OnlyWellFormed(arg.candidates)))
        /\ _score_letters(Retained, state.guessed) =
              _score_letters(Keep(state.secret_word, state.guessed,
                                  OnlyWellFormed(arg.candidates)), state.guessed)

\* wrong-length entries alone are excluded
C16_WrongLengthExcluded ==
    Suggested => \A i \in 1..Len(Retained) : Len(Retained[i]) = Len(state.secret_word)

\* ------------------------------------------------------------------- C17
\* C17 (as stated): the call raises nothing; letter and
\* candidates_considered do not depend on what the collaborator does;
\* used_llm is true exactly when the collaborator returned non-empty text;
\* otherwise the text is the local sentence.
ReplyText == IF arg.llm.env = "online" /\ arg.llm.reply.type = "str" THEN arg.llm.reply.str ELSE <<>>

SameRecommendationWhateverLlm ==
    \A other \in LlmBehaviours :
        LET s2 == suggest_next_letter(state.secret_word, state.guessed, arg.candidates, other)
        IN  /\ s2.letter = coach_suggestion.letter
            /\ s2.candidates_considered = coach_suggestion.candidates_considered

LocalSentence ==
    /\ coach_suggestion.text.template = "local"
    /\ coach_suggestion.text.denom = Max(1, coach_suggestion.candidates_considered)
    /\ coach_suggestion.text =
          suggest_next_letter(state.secret_word, state.guessed, arg.candidates,
                              [env |-> "offline", reply |-> PyNone]).text

C17_UsedLlmIffNonEmptyReply ==
    Suggested =>
        /\ exc = "none"
        /\ SameRecommendationWhateverLlm
        /\ coach_suggestion.used_llm <=> (ReplyText # <<>>)
        /\ ~coach_suggestion.used_llm => LocalSentence

\* C17 (amended): as above, with used_llm true exactly when the collaborator
\* returned text that is non-empty after trimming, and the text then being
\* that trimmed reply.
C17_UsedLlmIffNonBlankReply ==
    Suggested =>
        /\ exc = "none"
        /\ SameRecommendationWhateverLlm
        /\ coach_suggestion.used_llm <=> (strip(ReplyText) # <<>>)
        /\ coach_suggestion.used_llm => coach_suggestion.text = PyStr(strip(ReplyText))
        /\ ~coach_suggestion.used_llm => LocalSentence

C17_Witness ==
    /\ Suggested
    /\ arg.llm = [env |-> "online", reply |-> PyRaise]
    /\ arg.candidates = ExamplePool
    /\ ~coach_suggestion.used_llm
    /\ coach_suggestion.text.pct = 100
    /\ coach_suggestion.letter = <<"l">>

C17_WitnessLlm ==
    Suggested /\ coach_suggestion.used_llm /\ coach_suggestion.text = PyStr(<<"t", "o", "p">>)

\* ------------------------------------------------------------------- C18
\* C18: a guess never alters the GameState it is given: every GameState
\* object the driver has kept still has the secret, guessed contents,
\* wrong_count, max_wrong and status it had when it was returned.
C18_EarlierStatesUnaltered ==
    \A i \in 1..Len(memory.held) : Deref(memory.heap, memory.held[i]) = memory.seen[i]

C18_Witness ==
    /\ Len(memory.held) >= 3
    /\ memory.seen[1].guessed = {}
    /\ memory.seen[2].guessed # {}
    /\ memory.seen[3].guessed # memory.seen[2].guessed
    /\ op = "guess_letter"

\* the object-level round computes the values of guess_letter and guess_word
C18_ObjectsAgreeWithValues ==
    /\ op = "guess_letter" => state = guess_letter(prev, arg.v)
    /\ op = "guess_word" => state = guess_word(prev, arg.v)

\* ------------------------------------------------------------------- C20
\* C20: in no state reachable from new_game is the secret fully revealed
\* while wrong_count >= max_wrong; every reachable won state has
\* wrong_count < max_wrong.
C20_WinAndLossExclusive ==
    /\ ~(SecretRevealed(state) /\ state.wrong_count >= state.max_wrong)
    /\ state.status = "won" => state.wrong_count < state.max_wrong

C20_Witness ==
    /\ state.status = "won"
    /\ op = "guess_letter"
    /\ prev.status = "playing"
    /\ state.wrong_count = state.max_wrong - 1
    /\ state.wrong_count >= 1

\* ------------------------------------------------------------------- C21
\* C21: in every state reachable from new_game, guessed is the set of the
\* letters (in lower case) that were accepted as single-letter guesses in
\* this round, correct or incorrect, together with the letters revealed by a
\* correct whole-word guess; so no accepted letter is ever missing from
\* guessed afterwards.
C21_GuessedIsAcceptedAndRevealed == state.guessed = log.accepted \cup log.revealed

\* what does hold: guessed holds nothing but accepted and revealed letters
C21_GuessedOnlyAcceptedOrRevealed == state.guessed \subseteq log.accepted \cup log.revealed

\* an accepted wrong letter is dropped by the correct whole-word guess
C21_WitnessDroppedByWord ==
    /\ op = "guess_word"
    /\ state.status = "won"
    /\ <<"z">> \in log.accepted
    /\ <<"z">> \notin state.guessed

\* an accepted letter whose lower-case form is two code points never enters
C21_WitnessNeverEntered ==
    /\ op = "guess_letter"
    /\ arg.v = PyStr(<<"U+0130">>)
    /\ log.accepted = {<<"i", "U+0307">>}
    /\ log.revealed = {}
    /\ state.guessed = {}

\* ------------------------------------------------------------------- C22
\* C22: every retained word is consistent with the mask and the guesses:
\* masked with guessed it shows what the secret shows, i.e. a guessed letter
\* of the secret stands in the retained word at exactly the positions where
\* the secret reveals it, and no guessed letter stands anywhere else.
SameMask(secret, guessed, w) ==
    /\ Len(w) = Len(secret)
    /\ \A i \in 1..Len(secret) :
          IF <<secret[i]>> \in guessed THEN w[i] = secret[i] ELSE <<w[i]>> \notin guessed

C22_RetainedMasksAsSecret ==
    Suggested =>
        \A i \in 1..Len(Retained) : SameMask(state.secret_word, state.guessed, Retained[i])

\* the same, said with the mask the player is shown
C22_RetainedMasksAsSecret_Shown ==
    Suggested =>
        \A i \in 1..Len(Retained) :
            mask_word(Retained[i], state.guessed) = mask_word(state.secret_word, state.guessed)

\* ------------------------------------------------------------------- C23
\* C23: the recommendation does not depend on the order of the pool: every
\* rearrangement of the pool gives the same recommended letter and the same
\* candidates_considered.
Rearrangements(pool) ==
    LET n == Len(pool)
        one_to_one == {f \in [1..n -> 1..n] : \A i, j \in 1..n : f[i] = f[j] => i = j}
    IN  {[i \in 1..n |-> pool[f[i]]] : f \in one_to_one}

C23_PoolOrderIrrelevant ==
    Suggested =>
        \A other \in Rearrangements(arg.candidates) :
            LET s2 == suggest_next_letter(state.secret_word, state.guessed, other, arg.llm)
            IN  /\ s2.letter = coach_suggestion.letter
                /\ s2.candidates_considered = coach_suggestion.candidates_considered

C23_Witness ==
    /\ Suggested
    /\ state.guessed = {<<"a">>, <<"p">>}
    /\ Retained = <<Apply, Apple>>
    /\ ExamplePool \in Rearrangements(arg.candidates)
    /\ coach_suggestion.letter = <<"l">>
    /\ coach_suggestion.candidates_considered = 2

\* ------------------------------------------------------------------- C24
\* C24: pick_with_llm returns either None or one validated word: a returned
\* value other than None is non-empty and consists only of lower-case
\* letters a-z.
LowerAZ == {"a", "b", "e", "h", "i", "k", "l", "m", "n", "o", "p", "t", "y", "z"}

C24_PickedWordValidated ==
    op = "_start_new_game" =>
        (arg.llm_word # PyNone =>
            /\ arg.llm_word.type = "str"
            /\ Len(arg.llm_word.str) > 0
            /\ \A i \in 1..Len(arg.llm_word.str) : arg.llm_word.str[i] \in LowerAZ)

\* a reply that does pass is returned trimmed, unquoted and lower-cased
C24_WitnessClean ==
    /\ op = "_start_new_game"
    /\ arg.llm.replies[1] = PyRaise
    /\ arg.llm_word = PyStr(<<"a", "b">>)
    /\ state.secret_word = <<"a", "b">>
    /\ session.word_source = "llm"

\* the driver replaces an unusable word: the game never starts on it
C24_GameSecretUsable == op = "_start_new_game" => isalpha(state.secret_word)

\* ------------------------------------------------------------------- C25
\* C25: the letter suggest_next_letter returns is never a member of guessed,
\* whatever the secret, the guessed set and the pool (an empty pool and a
\* pool from which nothing is retained included).
C25_SuggestedLetterNotGuessed == Suggested => coach_suggestion.letter \notin state.guessed

\* what does hold: a letter that has a score is not in guessed
C25_ScoredLetterNotGuessed ==
    Suggested =>
        (coach_suggestion.letter[1] \in DOMAIN _score_letters(Retained, state.guessed)
            => coach_suggestion.letter \notin state.guessed)

C25_WitnessFallbackGuessed ==
    /\ Suggested
    /\ <<"e">> \in state.guessed
    /\ Retained = <<>>
    /\ coach_suggestion.letter = <<"e">>

\* ------------------------------------------------------------------- C26
\* C26: the filter never discards the true secret: when the pool contains
\* the secret, the secret is among the retained words and
\* candidates_considered >= 1; and in a Playing round the recommended letter
\* then has a score of at least 1, so it is not the letter of the empty-score
\* fallback branch.
InPool(w, pool) == \E i \in 1..Len(pool) : pool[i] = w

C26_SecretRetained ==
    (Suggested /\ InPool(state.secret_word, arg.candidates)) =>
        /\ InPool(state.secret_word, Retained)
        /\ coach_suggestion.candidates_considered >= 1
        /\ state.status = "playing" =>
              LET scores == _score_letters(Retained, state.guessed)
              IN  /\ DOMAIN scores # {}
                  /\ coach_suggestion.letter[1] \in DOMAIN scores
                  /\ scores[coach_suggestion.letter[1]] >= 1

C26_Witness ==
    /\ Suggested
    /\ state.secret_word = Apple
    /\ state.guessed = {<<"a">>, <<"p">>, <<"l">>, <<"z">>, <<"b">>}
    /\ arg.candidates = ExamplePool
    /\ Retained = <<Apple, Apply>>
    /\ coach_suggestion.letter = <<"e">>
    /\ ~coach_suggestion.used_llm
    /\ coach_suggestion.text.pct = 50

\* the first part in every state of a round, terminal ones included
C26_SecretRetainedInEveryState ==
    \A pool \in {<<state.secret_word>>, <<FallbackWord, <<"a", "b">>, <<"a", "b", "a">>, <<"b", "a">>>>} :
        InPool(state.secret_word, _filter_candidates(state.secret_word, state.guessed, pool))

\* ------------------------------------------------------------------- C27
\* C27: in every state reachable from new_game by guess_letter and
\* guess_word calls, wrong_count <= max_wrong, and wrong_count = max_wrong
\* holds exactly when status is lost.
C27_WrongCountWithinBudget ==
    /\ state.wrong_count <= state.max_wrong
    /\ (state.wrong_count = state.max_wrong) <=> (state.status = "lost")

C27_Witness ==
    /\ op = "guess_word"
    /\ prev.status = "playing"
    /\ prev.wrong_count = 1
    /\ prev.guessed # {}
    /\ state.wrong_count = 2
    /\ state.max_wrong = 2
    /\ state.status = "lost"

C27_WitnessWonBelowBudget ==
    state.status = "won" /\ state.wrong_count = state.max_wrong - 1 /\ op = "guess_word"

\* ------------------------------------------------------------------- C28
\* C28: every round ends: counted from new_game, at most (number of distinct
\* letters of the secret) + max_wrong - 1 calls return a changed state, and
\* when that many have, status is won or lost; a letter not yet in guessed
\* always changes the state of a Playing round, so a player who keeps
\* submitting such letters reaches a terminal status.
DistinctLetters(w) == Cardinality({w[i] : i \in 1..Len(w)})

MostChanges(s) == DistinctLetters(s.secret_word) + s.max_wrong - 1

C28_RoundEnds ==
    /\ log.changes <= MostChanges(state)
    /\ log.changes = MostChanges(state) => state.status \in {"won", "lost"}
    /\ state.status = "playing" =>
          \A ch \in LetterInputs :
              (ch.type = "str" /\ Len(ch.str) = 1 /\ isalpha(ch.str)
                  /\ lower(ch.str) \notin state.guessed)
                  => guess_letter(state, ch) # state

C28_Witness ==
    /\ state.secret_word = <<"a", "b">>
    /\ state.max_wrong = 2
    /\ log.changes = 3
    /\ state.status = "won"
    /\ op = "guess_letter"

C28_WitnessLost ==
    /\ state.secret_word = <<"a", "b", "a">>
    /\ log.changes = MostChanges(state)
    /\ state.status = "lost"
    /\ state.guessed = {<<"a">>, <<"z">>}

\* ------------------------------------------------------------------- C29
\* C29: session statistics are counted once per round: after any sequence
\* of UI events (submit a guess, new game, reset stats, plain rerun)
\* stats.games = stats.wins + stats.losses, and a round that reached won or
\* lost has been added to games, and its wrong_count to mistakes, at most
\* once, however many reruns follow before the next new game.
C29_StatsCountedOncePerRound ==
    /\ session.stats.games = session.stats.wins + session.stats.losses
    /\ log.counted <= 1
    /\ log.mistakes_added = (IF log.counted = 1 THEN state.wrong_count ELSE 0)
    /\ state.status = "playing" => log.counted = 0

C29_Witness ==
    /\ op = "rerun"
    /\ prev.status = "lost"
    /\ session.round_counted
    /\ log.counted = 1
    /\ session.stats = [games |-> 2, wins |-> 1, losses |-> 1, mistakes |-> 7]

C29_WitnessAfterReset ==
    /\ op = "rerun"
    /\ state.status = "won"
    /\ log.counted = 1
    /\ session.stats.games = 0
====
